---- MODULE Spec2Model ----
(***************************************************************************)
(* Model of my_agent/agent.py: the roster loader load_students_data, the   *)
(* module-level load STUDENT_DATA, the construction of root_agent and the  *)
(* declared output schema GroupsResponse.                                  *)
(*                                                                         *)
(* Text is a sequence of tokens.  The four special characters of the CSV   *)
(* dialect and of text-mode reading are tokens of their own (COMMA,        *)
(* DQUOTE, LF, CR); every other token stands for a run of ordinary         *)
(* characters, which the reader and the renderer copy without looking      *)
(* inside.                                                                 *)
(***************************************************************************)
EXTENDS Naturals, Sequences, FiniteSets

VARIABLES
    fileState,     \* "ok" | "missing" | "unreadable": what open(CSV_PATH) meets
    fileBytes,     \* the contents of students.csv on disk
    truth,         \* what the file was written from: [empty, hdr, rows, eol]
    pc,            \* position of the program
    error,         \* the exception that ended the program, "" if none
    text,          \* what the file object f yields (text mode)
    pos,           \* read position of the csv reader in text
    fieldnames,    \* DictReader._fieldnames: [set, names]
    students,      \* the local list students
    data,          \* the local string data
    idx,           \* position of the loop of line 19 in students
    results,       \* the values load_students_data has returned, in order
    STUDENT_DATA,  \* the module constant: [set, val]
    root_agent,    \* the Agent: [built, instruction, output_schema]
    response,      \* the external model's structured answer
    accepted,      \* whether the declared schema accepted the answer
    calls,         \* how many times load_students_data was entered
    opens,         \* how many times open() was attempted
    builds         \* how many times the prompt was assembled

vars == <<fileState, fileBytes, truth, pc, error, text, pos, fieldnames,
          students, data, idx, results, STUDENT_DATA, root_agent, response,
          accepted, calls, opens, builds>>

-----------------------------------------------------------------------------
(* Bounds of the model *)

MaxRows == 2

MaxMembers == 4

MaxCalls == 2

-----------------------------------------------------------------------------
(* Tokens *)

COMMA == ","

DQUOTE == "\""

LF == "\n"

CR == "\r"

RECURSIVE Concat(_)
Concat(ss) == IF ss = <<>> THEN <<>> ELSE Head(ss) \o Concat(Tail(ss))

IsInfix(s, t) ==
    \E i \in 0..(Len(t) - Len(s)) : SubSeq(t, i + 1, i + Len(s)) = s

-----------------------------------------------------------------------------
(* The input file: what a spreadsheet or csv writer puts on disk *)

ColName == <<"name">>

ColEmail == <<"email">>

ColInterests == <<"interests">>

ColLooking == <<"looking_to_connect_with">>

Required == {ColName, ColEmail, ColInterests, ColLooking}

Alice ==
    [name |-> <<"Alice">>, email |-> <<"alice@x.com">>,
     interests |-> <<"ML", COMMA, "robotics">>,
     looking |-> <<"other ML people">>]

Bob ==
    [name |-> <<"Bob">>, email |-> <<"bob@x.com">>,
     interests |-> <<"design", COMMA, "robotics">>,
     looking |-> <<"engineers">>]

Carol ==
    [name |-> <<"Carol ", DQUOTE, "CJ", DQUOTE>>, email |-> <<"carol@x.com">>,
     interests |-> <<"hiking">>,
     looking |-> <<"founders", LF, "designers">>]

Dave ==
    [name |-> <<"Dave">>, email |-> <<"dave@x.com">>,
     interests |-> <<"art", CR, LF, "music">>,
     looking |-> <<"anyone">>]

People == {Alice, Bob, Carol, Dave}

\* The cell a person's row holds under a header column.
CellOf(p, col) ==
    CASE col = ColName -> p.name
      [] col = <<"full_name">> -> p.name
      [] col = ColEmail -> p.email
      [] col = ColInterests -> p.interests
      [] col = ColLooking -> p.looking
      [] OTHER -> <<>>

Headers ==
    { <<ColName, ColEmail, ColInterests, ColLooking>>,
      <<ColEmail, ColLooking, ColName, ColInterests>>,
      <<ColName, ColEmail, ColInterests>>,
      <<<<"full_name">>, ColEmail, ColInterests, ColLooking>> }

\* A row of the file: whose it is and how many of the header's columns it
\* fills ("full": all, "short": all but the last, "one": the first only,
\* "blank": an empty line, "extra": all and one more cell).
RowKinds ==
    [who : People, shape : {"full"}]
        \cup [who : {Alice}, shape : {"short", "one", "blank", "extra"}]

RowCells(r, hdr) ==
    LET n == CASE r.shape = "short" -> Len(hdr) - 1
               [] r.shape = "one" -> 1
               [] r.shape = "blank" -> 0
               [] OTHER -> Len(hdr)
        cells == [i \in 1..n |-> CellOf(r.who, hdr[i])]
    IN  IF r.shape = "extra" THEN Append(cells, <<"extra">>) ELSE cells

NeedsQuotes(cell) ==
    \E i \in 1..Len(cell) : cell[i] \in {COMMA, DQUOTE, LF, CR}

RECURSIVE DoubleQuotes(_)
DoubleQuotes(cell) ==
    IF cell = <<>> THEN <<>>
    ELSE IF Head(cell) = DQUOTE
         THEN <<DQUOTE, DQUOTE>> \o DoubleQuotes(Tail(cell))
         ELSE <<Head(cell)>> \o DoubleQuotes(Tail(cell))

WriteCell(cell) ==
    IF NeedsQuotes(cell)
    THEN <<DQUOTE>> \o DoubleQuotes(cell) \o <<DQUOTE>>
    ELSE cell

RECURSIVE WriteCells(_)
WriteCells(cells) ==
    IF cells = <<>> THEN <<>>
    ELSE IF Len(cells) = 1 THEN WriteCell(cells[1])
    ELSE WriteCell(cells[1]) \o <<COMMA>> \o WriteCells(Tail(cells))

WriteLine(cells, eol) == WriteCells(cells) \o eol

WriteFile(t) ==
    IF t.empty THEN <<>>
    ELSE WriteLine(t.hdr, t.eol)
         \o Concat([i \in 1..Len(t.rows) |->
                        WriteLine(RowCells(t.rows[i], t.hdr), t.eol)])

LineEnds == { <<LF>>, <<CR, LF>> }

RowSeqs == UNION { [1..n -> RowKinds] : n \in 0..MaxRows }

Truths ==
    [empty : {FALSE}, hdr : Headers, rows : RowSeqs, eol : LineEnds]
        \cup {[empty |-> TRUE, hdr |-> <<>>, rows |-> <<>>, eol |-> <<LF>>]}

-----------------------------------------------------------------------------
(* open(CSV_PATH, "r"): text mode with universal newlines *)

\* Every CR LF and every lone CR of the file reaches the program as LF,
\* inside quoted fields as well as at line ends.
RECURSIVE TextMode(_)
TextMode(bytes) ==
    IF bytes = <<>> THEN <<>>
    ELSE IF Head(bytes) = CR
         THEN IF Len(bytes) >= 2 /\ bytes[2] = LF
              THEN <<LF>> \o TextMode(Tail(Tail(bytes)))
              ELSE <<LF>> \o TextMode(Tail(bytes))
         ELSE <<Head(bytes)>> \o TextMode(Tail(bytes))

-----------------------------------------------------------------------------
(* csv.reader, excel dialect: delimiter ',', quotechar '"', doublequote,   *)
(* not strict                                                              *)

\* The reader's automaton from token i of txt on, in state st with the
\* current field fld and the fields saved so far; the record ends at an
\* unquoted LF or at the end of the text.
RECURSIVE Scan(_, _, _, _, _)
Scan(txt, i, st, fld, fields) ==
    IF i > Len(txt)
    THEN [row |-> IF st = "START_RECORD" THEN fields ELSE Append(fields, fld),
          pos |-> i]
    ELSE
      LET c == txt[i] IN
      CASE st \in {"START_RECORD", "START_FIELD"} ->
             IF c = LF
             THEN [row |-> IF st = "START_RECORD" THEN fields
                           ELSE Append(fields, <<>>),
                   pos |-> i + 1]
             ELSE IF c = DQUOTE
             THEN Scan(txt, i + 1, "IN_QUOTED_FIELD", <<>>, fields)
             ELSE IF c = COMMA
             THEN Scan(txt, i + 1, "START_FIELD", <<>>, Append(fields, <<>>))
             ELSE Scan(txt, i + 1, "IN_FIELD", <<c>>, fields)
        [] st = "IN_FIELD" ->
             IF c = LF
             THEN [row |-> Append(fields, fld), pos |-> i + 1]
             ELSE IF c = COMMA
             THEN Scan(txt, i + 1, "START_FIELD", <<>>, Append(fields, fld))
             ELSE Scan(txt, i + 1, "IN_FIELD", Append(fld, c), fields)
        [] st = "IN_QUOTED_FIELD" ->
             IF c = DQUOTE
             THEN Scan(txt, i + 1, "QUOTE_IN_QUOTED_FIELD", fld, fields)
             ELSE Scan(txt, i + 1, "IN_QUOTED_FIELD", Append(fld, c), fields)
        [] OTHER ->  \* QUOTE_IN_QUOTED_FIELD
             IF c = DQUOTE
             THEN Scan(txt, i + 1, "IN_QUOTED_FIELD", Append(fld, c), fields)
             ELSE IF c = COMMA
             THEN Scan(txt, i + 1, "START_FIELD", <<>>, Append(fields, fld))
             ELSE IF c = LF
             THEN [row |-> Append(fields, fld), pos |-> i + 1]
             ELSE Scan(txt, i + 1, "IN_FIELD", Append(fld, c), fields)

\* next(reader): StopIteration when no line is left, else the next record.
ReaderNext(txt, p) ==
    IF p > Len(txt) THEN [stop |-> TRUE, row |-> <<>>, pos |-> p]
    ELSE LET r == Scan(txt, p, "START_RECORD", <<>>, <<>>)
         IN  [stop |-> FALSE, row |-> r.row, pos |-> r.pos]

\* The loop "while row == []: row = next(self.reader)".
RECURSIVE SkipBlank(_, _)
SkipBlank(txt, p) ==
    LET r == ReaderNext(txt, p)
    IN  IF r.stop \/ r.row # <<>> THEN r ELSE SkipBlank(txt, r.pos)

-----------------------------------------------------------------------------
(* csv.DictReader *)

NoFieldnames == [set |-> FALSE, names |-> <<>>]

None == [isNone |-> TRUE, s |-> <<>>]

Value(cell) == [isNone |-> FALSE, s |-> cell]

\* Variant of MakeDict without the restval step: a short row gets no key
\* for the columns it lacks.
MakeDictNoRestval(names, row) ==
    LET n == IF Len(row) < Len(names) THEN Len(row) ELSE Len(names)
        keys == {names[i] : i \in 1..n}
        last(k) == CHOOSE i \in 1..n :
                       /\ names[i] = k
                       /\ \A j \in 1..n : names[j] = k => j <= i
    IN  [k \in keys |-> Value(row[last(k)])]

\* dict(zip(fieldnames, row)), then restval (None) under every fieldname
\* the row is too short for.  A later duplicate of a fieldname wins.  The
\* cells beyond the fieldnames go under the key None (restkey), which the
\* loader never looks up, and are left out here.
MakeDict(names, row) ==
    LET keys == {names[i] : i \in 1..Len(names)}
        last(k) == CHOOSE i \in 1..Len(names) :
                       /\ names[i] = k
                       /\ \A j \in 1..Len(names) : names[j] = k => j <= i
    IN  [k \in keys |->
            IF last(k) <= Len(row) THEN Value(row[last(k)]) ELSE None]

\* The fieldnames property: the first record of the file, read once.
Fieldnames(txt, p, fn) ==
    IF fn.set THEN [fn |-> fn, pos |-> p]
    ELSE LET h == ReaderNext(txt, p)
         IN  IF h.stop THEN [fn |-> fn, pos |-> p]
             ELSE [fn |-> [set |-> TRUE, names |-> h.row], pos |-> h.pos]

\* Variant of DictReaderNext for a reader constructed with the fieldnames
\* given: the first line of the file is then a data row.
DictReaderNextFixedNames(txt, p, fn) ==
    LET names == <<ColName, ColEmail, ColInterests, ColLooking>>
        r == SkipBlank(txt, p)
    IN  IF r.stop
        THEN [stop |-> TRUE, row |-> <<>>, pos |-> r.pos,
              fn |-> [set |-> TRUE, names |-> names]]
        ELSE [stop |-> FALSE, row |-> MakeDict(names, r.row),
              pos |-> r.pos, fn |-> [set |-> TRUE, names |-> names]]

\* DictReader.__next__: [stop, row, pos, fn].
DictReaderNext(txt, p, fn) ==
    LET f == Fieldnames(txt, p, fn)
        r == SkipBlank(txt, f.pos)
    IN  IF r.stop
        THEN [stop |-> TRUE, row |-> <<>>, pos |-> r.pos, fn |-> f.fn]
        ELSE [stop |-> FALSE, row |-> MakeDict(f.fn.names, r.row),
              pos |-> r.pos, fn |-> f.fn]

-----------------------------------------------------------------------------
(* Rendering, lines 18-22 *)

\* f"{x}": a str as it is, None as the text None.
Str(v) == IF v.isNone THEN <<"None">> ELSE v.s

Has(d, k) == k \in DOMAIN d

RosterHeader == <<"WORKSHOP ATTENDEES:", LF, LF>>

Line20(s) ==
    <<"- ">> \o Str(s[ColName]) \o <<" (">> \o Str(s[ColEmail]) \o <<")", LF>>

Line21(s) == <<"  Interests: ">> \o Str(s[ColInterests]) \o <<LF>>

Line22(s) ==
    <<"  Looking to connect with: ">> \o Str(s[ColLooking]) \o <<LF, LF>>

\* Variant of RenderEntry that looks the keys up with s.get(key): a missing
\* key renders as None and nothing is raised.
RenderEntryGet(s) ==
    LET get(k) == IF Has(s, k) THEN Str(s[k]) ELSE <<"None">>
    IN  [raised |-> FALSE,
         out |-> <<"- ">> \o get(ColName) \o <<" (">> \o get(ColEmail)
                   \o <<")", LF>>
                   \o <<"  Interests: ">> \o get(ColInterests) \o <<LF>>
                   \o <<"  Looking to connect with: ">> \o get(ColLooking)
                   \o <<LF, LF>>]

\* What the body of the loop of line 19 does for the record s: the text it
\* appends and whether a lookup raised KeyError on the way.
RenderEntry(s) ==
    IF ~(Has(s, ColName) /\ Has(s, ColEmail))
    THEN [raised |-> TRUE, out |-> <<>>]
    ELSE IF ~Has(s, ColInterests)
    THEN [raised |-> TRUE, out |-> Line20(s)]
    ELSE IF ~Has(s, ColLooking)
    THEN [raised |-> TRUE, out |-> Line20(s) \o Line21(s)]
    ELSE [raised |-> FALSE, out |-> Line20(s) \o Line21(s) \o Line22(s)]

-----------------------------------------------------------------------------
(* The instruction of root_agent, lines 44-57 *)

PromptPrefix ==
    <<"You are a workshop matchmaker. Group students into teams ", LF,
      "based on their shared interests.", LF, LF,
      "RULES:", LF,
      "- Create MULTIPLE groups", LF,
      "- Each group should have MAXIMUM 3 people", LF,
      "- Group people with similar interests together", LF,
      "- Every attendee should be in at least one group", LF, LF,
      "Here is the data of all workshop attendees:", LF, LF>>

PromptSuffix ==
    <<LF, LF,
      "Create meaningful groups and explain why each group should connect.">>

\* Variant of Instruction for a string literal without the f prefix: the
\* placeholder stays in the text and the roster is not interpolated.
InstructionNoData(roster) ==
    PromptPrefix \o <<"{STUDENT_DATA}">> \o PromptSuffix

Instruction(roster) == PromptPrefix \o roster \o PromptSuffix

NoAgent == [built |-> FALSE, instruction |-> <<>>, output_schema |-> ""]

NoData == [set |-> FALSE, val |-> <<>>]

-----------------------------------------------------------------------------
(* The declared output schema, lines 27-33 *)

JStr(s) == [t |-> "str", s |-> s]

JNull == [t |-> "null", s |-> <<>>]

\* Variant of StudentGroupValid for a schema that also bounds the group
\* (group: list[str] with max_length=3).
StudentGroupValidMax3(g) ==
    /\ \A i \in 1..Len(g.group) : g.group[i].t = "str"
    /\ g.description.t = "str"
    /\ Len(g.group) <= 3

\* StudentGroup: group is a list of str, description is a str.
StudentGroupValid(g) ==
    /\ \A i \in 1..Len(g.group) : g.group[i].t = "str"
    /\ g.description.t = "str"

\* GroupsResponse: groups is a list of StudentGroup.
GroupsResponseValid(r) ==
    \A i \in 1..Len(r) : StudentGroupValid(r[i])

-----------------------------------------------------------------------------
(* The program *)

InitWith(ts) ==
    /\ \/ /\ fileState = "ok"
          /\ truth \in ts
          /\ fileBytes = WriteFile(truth)
       \/ /\ fileState \in {"missing", "unreadable"}
          /\ truth = [empty |-> TRUE, hdr |-> <<>>, rows |-> <<>>, eol |-> <<LF>>]
          /\ fileBytes = <<>>
    /\ pc = "start"
    /\ error = ""
    /\ text = <<>>
    /\ pos = 1
    /\ fieldnames = NoFieldnames
    /\ students = <<>>
    /\ data = <<>>
    /\ idx = 1
    /\ results = <<>>
    /\ STUDENT_DATA = NoData
    /\ root_agent = NoAgent
    /\ response = <<>>
    /\ accepted = FALSE
    /\ calls = 0
    /\ opens = 0
    /\ builds = 0

Init == InitWith(Truths)

\* Variant of Enter for a students list that outlives the call (a module
\* level list, a mutable default argument).
EnterKeepStudents ==
    /\ students' = students
    /\ data' = <<>>
    /\ idx' = 1
    /\ text' = <<>>
    /\ pos' = 1
    /\ fieldnames' = NoFieldnames
    /\ calls' = calls + 1
    /\ pc' = "open"
    /\ UNCHANGED <<fileState, fileBytes, truth, error, results, STUDENT_DATA,
                   root_agent, response, accepted, opens, builds>>

\* Entering load_students_data: students = [] (line 12).
Enter ==
    /\ students' = <<>>
    /\ data' = <<>>
    /\ idx' = 1
    /\ text' = <<>>
    /\ pos' = 1
    /\ fieldnames' = NoFieldnames
    /\ calls' = calls + 1
    /\ pc' = "open"
    /\ UNCHANGED <<fileState, fileBytes, truth, error, results, STUDENT_DATA,
                   root_agent, response, accepted, opens, builds>>

\* Variant of CallLoad for a prompt that reloads the roster each time the
\* agent is about to be built.
CallLoadEveryTime ==
    /\ pc \in {"start", "loaded"}
    /\ Enter

\* Line 37: the module calls load_students_data when it is imported.
CallLoad ==
    /\ pc = "start"
    /\ Enter

\* Variant of OpenFile that catches the error of open() and goes on with
\* an empty roster.
OpenFileOrEmpty ==
    /\ pc = "open"
    /\ opens' = opens + 1
    /\ text' = IF fileState = "ok" THEN TextMode(fileBytes) ELSE <<>>
    /\ pos' = 1
    /\ fieldnames' = NoFieldnames
    /\ pc' = "reading"
    /\ UNCHANGED <<fileState, fileBytes, truth, error, students, data, idx,
                   results, STUDENT_DATA, root_agent, response, accepted,
                   calls, builds>>

\* Lines 13-14: open the file and wrap it in a DictReader.  A missing or
\* unreadable file raises out of open(); nothing catches it.
OpenFile ==
    /\ pc = "open"
    /\ opens' = opens + 1
    /\ IF fileState = "ok"
       THEN /\ text' = TextMode(fileBytes)
            /\ pos' = 1
            /\ fieldnames' = NoFieldnames
            /\ pc' = "reading"
            /\ error' = error
       ELSE /\ error' = IF fileState = "missing" THEN "FileNotFoundError"
                        ELSE "PermissionError"
            /\ pc' = "failed"
            /\ UNCHANGED <<text, pos, fieldnames>>
    /\ UNCHANGED <<fileState, fileBytes, truth, students, data, idx, results,
                   STUDENT_DATA, root_agent, response, accepted, calls, builds>>

\* Lines 15-16: one turn of the loop, the reader yields a row.
ReadRow ==
    /\ pc = "reading"
    /\ LET r == DictReaderNext(text, pos, fieldnames)
       IN  /\ ~r.stop
           /\ students' = Append(students, r.row)
           /\ pos' = r.pos
           /\ fieldnames' = r.fn
    /\ UNCHANGED <<fileState, fileBytes, truth, pc, error, text, data, idx,
                   results, STUDENT_DATA, root_agent, response, accepted,
                   calls, opens, builds>>

\* The reader is exhausted: the loop and the with block end, and line 18
\* starts the roster text.
EndOfFile ==
    /\ pc = "reading"
    /\ LET r == DictReaderNext(text, pos, fieldnames)
       IN  /\ r.stop
           /\ pos' = r.pos
           /\ fieldnames' = r.fn
    /\ data' = RosterHeader
    /\ idx' = 1
    /\ pc' = "rendering"
    /\ UNCHANGED <<fileState, fileBytes, truth, error, text, students,
                   results, STUDENT_DATA, root_agent, response, accepted,
                   calls, opens, builds>>

\* Lines 19-22: one turn of the rendering loop.  A record without one of
\* the four keys raises KeyError out of the function.
RenderRow ==
    /\ pc = "rendering"
    /\ idx <= Len(students)
    /\ LET e == RenderEntry(students[idx])
       IN  /\ data' = data \o e.out
           /\ IF e.raised
              THEN /\ error' = "KeyError"
                   /\ pc' = "failed"
                   /\ idx' = idx
              ELSE /\ error' = error
                   /\ pc' = pc
                   /\ idx' = idx + 1
    /\ UNCHANGED <<fileState, fileBytes, truth, text, pos, fieldnames,
                   students, results, STUDENT_DATA, root_agent, response,
                   accepted, calls, opens, builds>>

\* Line 23: return data.
Return ==
    /\ pc = "rendering"
    /\ idx > Len(students)
    /\ results' = Append(results, data)
    /\ pc' = "returned"
    /\ UNCHANGED <<fileState, fileBytes, truth, error, text, pos, fieldnames,
                   students, data, idx, STUDENT_DATA, root_agent, response,
                   accepted, calls, opens, builds>>

\* Line 37: STUDENT_DATA = the value returned.
AssignStudentData ==
    /\ pc = "returned"
    /\ ~STUDENT_DATA.set
    /\ STUDENT_DATA' = [set |-> TRUE, val |-> results[Len(results)]]
    /\ pc' = "loaded"
    /\ UNCHANGED <<fileState, fileBytes, truth, error, text, pos, fieldnames,
                   students, data, idx, results, root_agent, response,
                   accepted, calls, opens, builds>>

\* Lines 40-59: root_agent = Agent(instruction=f"...{STUDENT_DATA}...",
\* output_schema=GroupsResponse).
BuildAgent ==
    /\ pc = "loaded"
    /\ root_agent' = [built |-> TRUE,
                      instruction |-> Instruction(STUDENT_DATA.val),
                      output_schema |-> "GroupsResponse"]
    /\ builds' = builds + 1
    /\ pc' = "ready"
    /\ UNCHANGED <<fileState, fileBytes, truth, error, text, pos, fieldnames,
                   students, data, idx, results, STUDENT_DATA, response,
                   accepted, calls, opens>>

Next ==
    \/ CallLoad
    \/ OpenFile
    \/ ReadRow
    \/ EndOfFile
    \/ RenderRow
    \/ Return
    \/ AssignStudentData
    \/ BuildAgent

Spec == Init /\ [][Next]_vars

-----------------------------------------------------------------------------
(* A caller that calls load_students_data again after it has returned *)

CallAgain ==
    /\ pc = "returned"
    /\ calls < MaxCalls
    /\ Enter

NextCalls ==
    \/ CallLoad
    \/ OpenFile
    \/ ReadRow
    \/ EndOfFile
    \/ RenderRow
    \/ Return
    \/ CallAgain

SpecCalls == Init /\ [][NextCalls]_vars

-----------------------------------------------------------------------------
(* The external runtime: the hosted model answers and the runtime checks   *)
(* the answer against output_schema                                        *)

Stranger == <<"Mallory">>

\* The names the answer may use: the first attendee's and a stranger's.
MemberPool ==
    {JStr(Stranger)} \cup
        (IF students # <<>> /\ Has(students[1], ColName)
         THEN {JStr(Str(students[1][ColName]))} ELSE {})

MemberLists == UNION { [1..n -> MemberPool] : n \in 0..MaxMembers }

Groups ==
    [group : MemberLists, description : {JStr(<<"why">>)}]
        \cup {[group |-> <<JNull>>, description |-> JStr(<<"why">>)],
              [group |-> <<JStr(Stranger)>>, description |-> JNull]}

Responses ==
    {<<>>} \cup {<<g>> : g \in Groups} \cup {<<g, g>> : g \in Groups}

ModelRespond ==
    /\ pc = "ready"
    /\ \E r \in Responses :
          /\ response' = r
          /\ accepted' = (root_agent.output_schema = "GroupsResponse"
                            /\ GroupsResponseValid(r))
    /\ pc' = "responded"
    /\ UNCHANGED <<fileState, fileBytes, truth, error, text, pos, fieldnames,
                   students, data, idx, results, STUDENT_DATA, root_agent,
                   calls, opens, builds>>

ScenarioHeader == <<ColName, ColEmail, ColInterests, ColLooking>>

Scenarios ==
    { [empty |-> FALSE, hdr |-> ScenarioHeader, rows |-> rs, eol |-> <<LF>>] :
        rs \in { <<>>,
                 <<[who |-> Alice, shape |-> "full"]>>,
                 <<[who |-> Alice, shape |-> "full"],
                   [who |-> Bob, shape |-> "full"]>> } }

InitScenario == InitWith(Scenarios)

NextRun == Next \/ ModelRespond

SpecRun == InitScenario /\ [][NextRun]_vars

-----------------------------------------------------------------------------
(* Vocabulary of the properties, stated from the file as it was written    *)

ExpectedHeader == <<"WORKSHOP ATTENDEES:", "\n", "\n">>

ColumnsOf(hdr) == {hdr[i] : i \in 1..Len(hdr)}

WellFormedHeader(hdr) == Len(hdr) = 4 /\ ColumnsOf(hdr) = Required

LacksColumn(hdr) == \E c \in Required : c \notin ColumnsOf(hdr)

IsBlank(r) == r.shape = "blank"

IsShort(r) == r.shape \in {"short", "one"}

\* The rows of the file that are data rows: every line but the blank ones.
DataRows(t) == SelectSeq(t.rows, LAMBDA r : ~IsBlank(r))

WellFormed(t) ==
    /\ ~t.empty
    /\ WellFormedHeader(t.hdr)
    /\ \A i \in 1..Len(t.rows) : t.rows[i].shape = "full"

Returned == pc \in {"returned", "loaded", "ready", "responded"}

LastResult == results[Len(results)]

\* An attendee's entry as the specification words it, from the values the
\* file holds.
EntryOf(p) ==
    <<"- ">> \o p.name \o <<" (">> \o p.email \o <<")", "\n">>
        \o <<"  Interests: ">> \o p.interests \o <<"\n">>
        \o <<"  Looking to connect with: ">> \o p.looking \o <<"\n", "\n">>

\* Where the entry of the i-th record starts and ends in the roster text.
RECURSIVE EntryStart(_)
EntryStart(i) ==
    IF i = 1 THEN Len(ExpectedHeader) + 1
    ELSE EntryStart(i - 1) + Len(RenderEntry(students[i - 1]).out)

EntryText(i) ==
    SubSeq(LastResult, EntryStart(i),
           EntryStart(i) + Len(RenderEntry(students[i]).out) - 1)

\* C1: for every well-formed file with N data rows the returned text is the
\* fixed header line followed by exactly N entries, the i-th being the
\* three lines of the i-th data row of the file, in file order.
C1_EntriesInFileOrder ==
    (fileState = "ok" /\ WellFormed(truth) /\ pc = "returned")
        => LastResult =
             ExpectedHeader
                \o Concat([i \in 1..Len(truth.rows) |->
                              EntryOf(truth.rows[i].who)])

\* C2: round trip: each of the four field values of every data row of a
\* well-formed file appears unmodified in that row's entry of the roster.
C2_RoundTrip ==
    (fileState = "ok" /\ WellFormed(truth) /\ pc = "returned")
        => /\ Len(students) = Len(truth.rows)
           /\ \A i \in 1..Len(truth.rows) : \A col \in Required :
                 /\ Has(students[i], col)
                 /\ IsInfix(CellOf(truth.rows[i].who, col), EntryText(i))

\* C3: a file with a header row and no data row loads without failing and
\* the roster is the fixed header line alone.
C3_HeaderOnly ==
    (fileState = "ok" /\ ~truth.empty /\ WellFormedHeader(truth.hdr)
        /\ truth.rows = <<>>)
        => /\ pc # "failed"
           /\ error = ""
           /\ students = <<>>
           /\ Returned => results = <<ExpectedHeader>>

C3_Witness ==
    /\ fileState = "ok" /\ ~truth.empty /\ WellFormedHeader(truth.hdr)
    /\ truth.rows = <<>>
    /\ pc = "returned"
    /\ results = <<ExpectedHeader>>

\* C4: the instruction of the agent starts with the fixed instruction text
\* (role description and rules) and the whole roster text the loader
\* returned follows it as one contiguous, unaltered piece.
C4_PromptHoldsRoster ==
    root_agent.built
        => LET ins == root_agent.instruction
               n == Len(PromptPrefix)
           IN  /\ Len(results) = 1
               /\ SubSeq(ins, 1, n) = PromptPrefix
               /\ IsInfix(<<"RULES:">>, SubSeq(ins, 1, n))
               /\ SubSeq(ins, n + 1, n + Len(results[1])) = results[1]
               /\ STUDENT_DATA.val = results[1]

C4_Witness ==
    /\ root_agent.built
    /\ Len(students) = 2
    /\ Len(results[1]) > Len(ExpectedHeader)

\* C5: when the file is missing or unreadable the load fails at open(),
\* once and for good: no retry, no roster text, no prompt, no agent.
C5_MissingFileIsFatal ==
    fileState # "ok"
        => /\ pc \in {"start", "open", "failed"}
           /\ opens <= 1
           /\ opens = 1 =>
                /\ pc = "failed"
                /\ error \in {"FileNotFoundError", "PermissionError"}
           /\ results = <<>>
           /\ ~STUDENT_DATA.set
           /\ ~root_agent.built

C5_Witness ==
    /\ fileState = "missing"
    /\ pc = "failed"
    /\ error = "FileNotFoundError"
    /\ opens = 1

HasShortRow(t) == \E i \in 1..Len(t.rows) : IsShort(t.rows[i])

\* C6 as claimed: a data row with fewer fields than the header makes the
\* load raise instead of returning a roster text.
C6_ShortRowRaises ==
    (fileState = "ok" /\ ~truth.empty /\ WellFormedHeader(truth.hdr)
        /\ HasShortRow(truth))
        => ~Returned

\* The entry the loader renders for a row of the file: the cells the row
\* has, as text mode delivers them, and None for the columns it lacks.
IndexOf(hdr, col) == CHOOSE i \in 1..Len(hdr) : hdr[i] = col

ShownCell(r, hdr, col) ==
    IF IndexOf(hdr, col) <= Len(RowCells(r, hdr))
    THEN TextMode(RowCells(r, hdr)[IndexOf(hdr, col)])
    ELSE <<"None">>

ShownEntry(r, hdr) ==
    <<"- ">> \o ShownCell(r, hdr, ColName) \o <<" (">>
        \o ShownCell(r, hdr, ColEmail) \o <<")", "\n">>
        \o <<"  Interests: ">> \o ShownCell(r, hdr, ColInterests) \o <<"\n">>
        \o <<"  Looking to connect with: ">>
        \o ShownCell(r, hdr, ColLooking) \o <<"\n", "\n">>

\* C6 as amended: under a header naming the four columns, a non-blank row
\* with fewer fields does not make the load raise; the roster is returned
\* and holds an entry for every non-blank row, in file order, with the
\* text None in place of each field the row lacks.
C6_ShortRowRendersNone ==
    (fileState = "ok" /\ ~truth.empty /\ WellFormedHeader(truth.hdr)
        /\ HasShortRow(truth))
        => /\ pc # "failed"
           /\ error = ""
           /\ Returned =>
                LET rs == DataRows(truth)
                IN  results[1] =
                      ExpectedHeader
                         \o Concat([i \in 1..Len(rs) |->
                                       ShownEntry(rs[i], truth.hdr)])

C6_Witness ==
    /\ fileState = "ok" /\ WellFormedHeader(truth.hdr) /\ HasShortRow(truth)
    /\ pc = "returned"
    /\ IsInfix(<<"  Looking to connect with: ", "None", "\n">>, results[1])

\* C7: the load runs once and is complete (file read to its end, every
\* record rendered, the text returned) before the prompt is assembled; the
\* prompt is assembled once; neither step is entered again.
C7_LinearOnce ==
    /\ calls <= 1
    /\ opens <= 1
    /\ builds <= 1
    /\ Len(results) <= 1
    /\ opens <= calls
    /\ Len(results) <= opens
    /\ builds <= Len(results)
    /\ builds = 1 =>
         /\ pc = "ready"
         /\ STUDENT_DATA.set
         /\ pos > Len(text)
         /\ idx > Len(students)
    /\ (pc = "ready") => builds = 1

C7_Witness ==
    /\ pc = "ready"
    /\ calls = 1 /\ opens = 1 /\ builds = 1
    /\ Len(students) = 2

\* The shape the schema declares, and nothing more: lists of strings and
\* string descriptions.
TypesOK(r) ==
    \A i \in 1..Len(r) :
        /\ r[i].description.t = "str"
        /\ \A j \in 1..Len(r[i].group) : r[i].group[j].t = "str"

Attendees ==
    {Str(students[i][ColName]) : i \in 1..Len(students)}

Members(g) == {g.group[j].s : j \in 1..Len(g.group)}

\* C8: the declared schema accepts every answer of the declared shape,
\* whatever its groups hold: more than 3 members, a name that is not in
\* the roster, a repeated member, an attendee left out of every group.
C8_SchemaEnforcesNoRules ==
    (pc = "responded" /\ TypesOK(response)) => accepted

C8_Witness ==
    /\ pc = "responded"
    /\ accepted
    /\ Len(students) = 2
    /\ \E i \in 1..Len(response) :
          LET g == response[i]
          IN  /\ Len(g.group) > 3
              /\ Stranger \in Members(g)
              /\ Stranger \notin Attendees
              /\ Cardinality(Members(g)) < Len(g.group)
    /\ \E a \in Attendees :
          \A i \in 1..Len(response) : a \notin Members(response[i])

\* C9: under a header that lacks a required column the header itself is
\* never checked: the load fails with KeyError exactly when the file has a
\* data row, while rendering the first one and after the whole file was
\* read; with no data row it returns the fixed header line.
C9_HeaderNeverValidated ==
    (fileState = "ok" /\ ~truth.empty /\ LacksColumn(truth.hdr))
        => LET n == Len(DataRows(truth))
           IN  /\ pc \in {"start", "open", "reading"} => error = ""
               /\ pc = "rendering" =>
                    /\ idx = 1
                    /\ Len(students) = n
               /\ pc = "failed" =>
                    /\ error = "KeyError"
                    /\ n >= 1
                    /\ idx = 1
                    /\ pos > Len(text)
                    /\ Len(students) = n
               /\ Returned =>
                    /\ n = 0
                    /\ results = <<ExpectedHeader>>

C9_Witness ==
    /\ fileState = "ok" /\ ~truth.empty /\ LacksColumn(truth.hdr)
    /\ pc = "failed"
    /\ error = "KeyError"
    /\ Len(students) = 2

\* C10: successive calls on the unchanged file return identical texts, the
\* file on disk stays as it was written, and a call's result holds only the
\* rows of the file, none carried over from an earlier call.
C10_NoStateBetweenCalls ==
    /\ fileBytes = WriteFile(truth)
    /\ \A i \in 1..Len(results) : results[i] = results[1]
    /\ pc = "returned" => Len(students) = Len(DataRows(truth))

C10_Witness ==
    /\ pc = "returned"
    /\ calls = 2
    /\ Len(results) = 2
    /\ Len(students) = 2

====
